---- MODULE Spec2Model ----
(***************************************************************************)
(* MapComposition.executeRequest of the OTF project plugin                 *)
(* (src/filters/map_composition.py): the MAPCOMPOSITION request handler    *)
(* that builds or updates a QGIS project file from (name, source) pairs.   *)
(*                                                                         *)
(* State: the project file on disk, the process-wide QgsProject.instance() *)
(* object, the companion .qml files on disk, and the record of the last    *)
(* request (its parameters, response status and the order of its effects). *)
(***************************************************************************)
EXTENDS Integers, Sequences, FiniteSets, TLC

\* ---------------------------------------------------------------- bounds
\* Longest SOURCES / NAMES list of a request.
MaxPairs == 2
\* Requests handled in one run of the server process.
MaxRequests == 2
\* Ids of the layers a project file may hold before the first request.
InitIds == 2

\* -------------------------------------------------------------- universe
\* params.get(X) of an absent (or empty) parameter.
NoParam == ""

\* The data sources requests may name.
VectorA == "/d/a.shp"
VectorB == "/d/b.shp"
RasterA == "/d/a.tif"
BrokenC == "/d/c.shp"
MissingX == "/d/x.shp"
BadUri == "bad uri"
UnknownUri == "type=foo"

GoodSources == {VectorA, VectorB, RasterA}
Sources == GoodSources \cup {BrokenC, MissingX, BadUri, UnknownUri}
Names == {"a", "b"}
ProjectPath == "/p/project.qgs"

\* tools.validate_source_uri(layer_source)
validate_source_uri(s) == s # BadUri

\* tools.is_file_path(layer_source)
is_file_path(s) == s \in {VectorA, VectorB, RasterA, BrokenC, MissingX}

\* os.path.exists(layer_source) for a data file: the handler never creates
\* or deletes data files, so this is fixed per source.
SourceFileExists(s) == s \in {VectorA, VectorB, RasterA, BrokenC}

\* What tools.layer_from_source(layer_source, layer_name) yields:
\* "none" (no layer), "invalid" (a layer whose isValid() is false),
\* "vector" (QgsVectorLayer), "raster" (QgsRasterLayer).
LayerKind(s) ==
  CASE s \in {VectorA, VectorB} -> "vector"
    [] s = RasterA -> "raster"
    [] s = BrokenC -> "invalid"
    [] OTHER -> "none"

\* splitext(basename(layer_source))[0]
BaseStem(s) ==
  CASE s \in {VectorA, RasterA} -> "a"
    [] s = VectorB -> "b"
    [] s = BrokenC -> "c"
    [] s = MissingX -> "x"
    [] s = BadUri -> "bad uri"
    [] OTHER -> "type=foo"

\* splitext(layer_source)[0] + '.qml'
QmlOf(s) ==
  CASE s \in {VectorA, RasterA} -> "/d/a.qml"
    [] s = VectorB -> "/d/b.qml"
    [] s = BrokenC -> "/d/c.qml"
    [] s = MissingX -> "/d/x.qml"
    [] s = BadUri -> "bad uri.qml"
    [] OTHER -> "type=foo.qml"

\* str.upper() on the parameter values requests carry.
Upper(v) ==
  CASE v = "true" -> "TRUE"
    [] v = "yes" -> "YES"
    [] v = "no" -> "NO"
    [] v = "mapcomposition" -> "MAPCOMPOSITION"
    [] OTHER -> v

\* The OVERWRITE / REMOVEQML parsing: truthy only for 1, YES, TRUE.
Truthy(v) == IF v # NoParam THEN Upper(v) \in {"1", "YES", "TRUE"} ELSE FALSE

\* ------------------------------------------------------------ the project
\* A project's content: its map layers (keyed by id) and the three property
\* entries the handler writes. An absent list entry is the empty sequence.
EmptyProject == [layers |-> {}, wfs |-> <<>>, wcs |-> <<>>, prec |-> {}]

Layer(i, n, s) == [id |-> i, name |-> n, src |-> s]

Range(f) == {f[k] : k \in DOMAIN f}

\* The ids in `ids`, ascending.
RECURSIVE Ascending(_)
Ascending(ids) ==
  IF ids = {} THEN <<>>
  ELSE LET m == CHOOSE x \in ids : \A y \in ids : x <= y
       IN <<m>> \o Ascending(ids \ {m})

\* list.remove(x): drops the first occurrence of x.
RECURSIVE RemoveFirst(_, _)
RemoveFirst(seq, x) ==
  IF seq = <<>> THEN <<>>
  ELSE IF Head(seq) = x THEN Tail(seq)
  ELSE <<Head(seq)>> \o RemoveFirst(Tail(seq), x)

\* Mutant of mapLayersByName: the name filter is lost, every layer of the
\* project is returned.
mapLayersAnyName(layers, name) ==
  LET byId == Ascending({l.id : l \in layers})
  IN [k \in DOMAIN byId |-> CHOOSE l \in layers : l.id = byId[k]]

\* QgsProject.mapLayersByName(name): the layers with that name, in the
\* order of the layer map (by id).
mapLayersByName(layers, name) ==
  LET hit == {l \in layers : l.name = name}
      byId == Ascending({l.id : l \in hit})
  IN [k \in DOMAIN byId |-> CHOOSE l \in hit : l.id = byId[k]]

\* ------------------------------------------------------- handler stages
Ev(e, a) == [ev |-> e, arg |-> a]

\* Lines 110-115: SOURCES, or the legacy FILES when SOURCES is empty.
SourcesParameter(r) == IF r.SOURCES # <<>> THEN r.SOURCES ELSE r.FILES

\* Lines 124-137: whether one source passes the parameter validation.
SourceAccepted(s) ==
  /\ validate_source_uri(s)
  /\ is_file_path(s) => SourceFileExists(s)

\* Lines 124-137: the validation loop over all sources.
SourcesAccepted(sources) == \A k \in DOMAIN sources : SourceAccepted(sources[k])

\* Lines 139-145: a given NAMES list must be as long as the sources.
NamesAccepted(r, sources) == r.NAMES # <<>> => Len(r.NAMES) = Len(sources)

\* Lines 139-149: the layer names, given or taken from the file names.
LayerNames(r, sources) ==
  IF r.NAMES # <<>> THEN r.NAMES
  ELSE [k \in DOMAIN sources |-> BaseStem(sources[k])]

\* Line 166: zip(names, sources) stops at the shorter list; the sources it
\* pairs with a name.
ZipSources(names, sources) ==
  SubSeq(sources, 1, IF Len(names) < Len(sources) THEN Len(names) ELSE Len(sources))

\* Mutant of LayerAccepted: the isValid() check of lines 176-180 is lost.
LayerAcceptedUnchecked(s) == LayerKind(s) # "none"

\* Lines 170-180: whether layer_from_source gave a layer that isValid().
LayerAccepted(s) == LayerKind(s) \notin {"none", "invalid"}

\* Lines 166-180: the position of the first source the layer loop rejects,
\* or 0 when it accepts them all.
FirstRejected(sources) ==
  IF \A k \in DOMAIN sources : LayerAccepted(sources[k]) THEN 0
  ELSE CHOOSE k \in DOMAIN sources :
         /\ ~LayerAccepted(sources[k])
         /\ \A j \in 1..(k - 1) : LayerAccepted(sources[j])

\* Lines 166-190: the layer objects the loop builds before it stops, each
\* with a fresh id.
BuiltLayers(names, sources, n) ==
  LET bad == FirstRejected(sources)
      m == IF bad = 0 THEN Len(sources) ELSE bad - 1
  IN [k \in 1..m |-> Layer(n + k - 1, names[k], sources[k])]

\* Lines 182-185: the ids of the built layers of one kind, in order.
IdsOfKind(built, kind) ==
  LET keep == SelectSeq(built, LAMBDA l : LayerKind(l.src) = kind)
  IN [k \in DOMAIN keep |-> keep[k].id]

\* Lines 192-195: the companion .qml files found on disk, one entry per
\* source that has one.
RECURSIVE QmlFiles(_, _)
QmlFiles(sources, qmlsOnDisk) ==
  IF sources = <<>> THEN <<>>
  ELSE (IF QmlOf(Head(sources)) \in qmlsOnDisk
        THEN <<QmlOf(Head(sources))>> ELSE <<>>)
       \o QmlFiles(Tail(sources), qmlsOnDisk)

\* Lines 225-232: same source, don't update. The existing layer's id takes
\* the incoming layer's place in the id list of the incoming layer's kind.
KeepExisting(st, current_layer, new_layer) ==
  CASE LayerKind(new_layer.src) = "vector" ->
         [st EXCEPT !.vector_layers =
            Append(RemoveFirst(st.vector_layers, new_layer.id), current_layer.id)]
    [] LayerKind(new_layer.src) = "raster" ->
         [st EXCEPT !.raster_layers =
            Append(RemoveFirst(st.raster_layers, new_layer.id), current_layer.id)]
    [] OTHER -> st

\* Lines 234-244: different source, update. The precision entry of the
\* replaced layer is removed only when the incoming layer is a vector layer.
ReplaceExisting(st, current_layer, new_layer) ==
  [st EXCEPT
     !.prec = IF LayerKind(new_layer.src) = "vector"
              THEN st.prec \ {current_layer.id} ELSE st.prec,
     !.layers = {l \in st.layers : l.id # current_layer.id} \cup {new_layer}]

\* Lines 212-244: one pass of the update loop for one incoming layer. The
\* project_qgis_layers list the loop also fills is never read afterwards.
UpdateLayer(st, new_layer) ==
  LET current_layer == mapLayersByName(st.layers, new_layer.name)
  IN IF current_layer = <<>>
     THEN [st EXCEPT !.layers = st.layers \cup {new_layer}]
     ELSE IF current_layer[1].src = new_layer.src
          THEN KeepExisting(st, current_layer[1], new_layer)
          ELSE ReplaceExisting(st, current_layer[1], new_layer)

\* Lines 211-244: the update loop over the incoming layers, in order.
RECURSIVE UpdateLayers(_, _)
UpdateLayers(st, qgis_layers) ==
  IF qgis_layers = <<>> THEN st
  ELSE UpdateLayers(UpdateLayer(st, Head(qgis_layers)), Tail(qgis_layers))

\* Lines 200-244: add the incoming layers to the registry.
AddToRegistry(overwrite, st, qgis_layers) ==
  IF overwrite
  THEN [st EXCEPT !.layers = st.layers \cup Range(qgis_layers)]
  ELSE UpdateLayers(st, qgis_layers)

\* Lines 248-255: the property entries, rewritten only for a non-empty list.
WriteEntries(st) ==
  [layers |-> st.layers,
   prec |-> IF st.vector_layers # <<>>
            THEN st.prec \cup Range(st.vector_layers) ELSE st.prec,
   wfs |-> IF st.vector_layers # <<>> THEN st.vector_layers ELSE st.wfs,
   wcs |-> IF st.raster_layers # <<>> THEN st.raster_layers ELSE st.wcs]

\* Lines 266-270: remove the collected .qml files in order; os.remove of a
\* file that is already gone raises and ends the loop.
RECURSIVE RemoveQmls(_, _, _)
RemoveQmls(qml_files, qmlsOnDisk, done) ==
  IF qml_files = <<>> THEN [qmls |-> qmlsOnDisk, log |-> done]
  ELSE IF Head(qml_files) \notin qmlsOnDisk
       THEN [qmls |-> qmlsOnDisk, log |-> Append(done, Ev("raise", "remove"))]
       ELSE RemoveQmls(Tail(qml_files), qmlsOnDisk \ {Head(qml_files)},
                       Append(done, Ev("remove_qml", Head(qml_files))))

\* Mutant of QmlRemoval: the remove_qml test of line 266 is lost.
QmlRemovalAlways(remove_qml, qml_files, qmlsOnDisk) ==
  RemoveQmls(qml_files, qmlsOnDisk, <<>>)

\* Lines 266-270: the .qml files are removed only when REMOVEQML asked for it.
QmlRemoval(remove_qml, qml_files, qmlsOnDisk) ==
  IF remove_qml THEN RemoveQmls(qml_files, qmlsOnDisk, <<>>)
  ELSE [qmls |-> qmlsOnDisk, log |-> <<>>]

\* ------------------------------------------------------------- the state
VARIABLES
  diskExists,  \* exists(project_path)
  disk,        \* the content of the project file
  inst,        \* the content of QgsProject.instance(), shared by all requests
  qmls,        \* the .qml files on disk
  nextId,      \* the next fresh layer id
  served,      \* the number of requests handled so far
  itervalues,  \* whether the host's layer map has the itervalues() method
  req,         \* the parameters of the last request
  status,      \* the status code the last request set (0: none set)
  log,         \* the effects of the last request, in order
  pre,         \* disk, instance and .qml files before the last request
  base,        \* the instance's content when the last request's layer loop began
  created,     \* the layer objects the last request built
  written      \* the content handed to project.write() by the last request

vars == <<diskExists, disk, inst, qmls, nextId, served, itervalues, req,
          status, log, pre, base, created, written>>

HasEvent(l, e) == \E k \in DOMAIN l : l[k].ev = e

\* The outcome of a request that stops at a return statement.
Stop(s, code, events, l, b, c) ==
  [diskExists |-> s.diskExists, disk |-> s.disk, inst |-> s.inst,
   qmls |-> s.qmls, nextId |-> s.nextId + Len(c), status |-> code,
   log |-> events \o l, base |-> b, created |-> c, written |-> EmptyProject]

\* Lines 257-273: write and clear the project, check the file, generate the
\* legends, remove the .qml files, answer 200.
WriteAndFinish(s, l, b, c, project, remove_qml, qml_files, writeOk) ==
  LET exists1 == s.diskExists \/ writeOk
      disk1 == IF writeOk THEN project ELSE s.disk
      l1 == l \o <<Ev("write", ProjectPath), Ev("clear", "")>>
      rm == QmlRemoval(remove_qml, qml_files, s.qmls)
      raised == HasEvent(rm.log, "raise")
  IN IF ~exists1
     THEN [diskExists |-> FALSE, disk |-> s.disk, inst |-> EmptyProject,
           qmls |-> s.qmls, nextId |-> s.nextId + Len(c), status |-> 0,
           log |-> Append(l1, Ev("write_failed", ProjectPath)),
           base |-> b, created |-> c, written |-> project]
     ELSE [diskExists |-> TRUE, disk |-> disk1, inst |-> EmptyProject,
           qmls |-> rm.qmls, nextId |-> s.nextId + Len(c),
           status |-> IF raised THEN 0 ELSE 200,
           log |-> l1 \o <<Ev("legend", ProjectPath)>> \o rm.log
                   \o (IF raised THEN <<>> ELSE <<Ev("ok", "")>>),
           base |-> b, created |-> c, written |-> project]

\* Lines 152-273: set up the project, build the layers, merge, write.
Compose(s, l, r, overwrite, remove_qml, sources, writeOk, hasIter) ==
  LET names == LayerNames(r, sources)
      paired == ZipSources(names, sources)
      doRead == s.diskExists /\ ~overwrite
      s1 == IF doRead THEN [s EXCEPT !.inst = s.disk] ELSE s
      l1 == IF doRead THEN Append(l, Ev("read", ProjectPath)) ELSE l
      qgis_layers == BuiltLayers(names, paired, s.nextId)
      st0 == [layers |-> s1.inst.layers, prec |-> s1.inst.prec,
              wfs |-> s1.inst.wfs, wcs |-> s1.inst.wcs,
              vector_layers |-> IdsOfKind(qgis_layers, "vector"),
              raster_layers |-> IdsOfKind(qgis_layers, "raster")]
      st1 == AddToRegistry(overwrite, st0, qgis_layers)
      merged == [layers |-> st1.layers, prec |-> st1.prec,
                 wfs |-> st1.wfs, wcs |-> st1.wcs]
  IN IF FirstRejected(paired) # 0
     THEN Stop(s1, 400, l1, <<Ev("error", "layer")>>, s1.inst, qgis_layers)
     ELSE IF ~hasIter
     THEN Stop([s1 EXCEPT !.inst = merged], 0, l1,
               <<Ev("raise", "itervalues")>>, s1.inst, qgis_layers)
     ELSE WriteAndFinish(s1, l1, s1.inst, qgis_layers, WriteEntries(st1),
                         remove_qml, QmlFiles(paired, s.qmls), writeOk)

\* Lines 77-273: MapComposition.executeRequest.
executeRequest(s, r, writeOk, hasIter) ==
  LET overwrite == Truthy(r.OVERWRITE)
      remove_qml == Truthy(r.REMOVEQML)
      removed == s.diskExists /\ overwrite
      s1 == IF removed
            THEN [s EXCEPT !.diskExists = FALSE, !.disk = EmptyProject] ELSE s
      l1 == IF removed THEN <<Ev("remove_project", ProjectPath)>> ELSE <<>>
      sources == SourcesParameter(r)
  IN IF Upper(r.SERVICE) # "MAPCOMPOSITION"
     THEN Stop(s, 0, <<>>, <<>>, EmptyProject, <<>>)
     ELSE IF r.PROJECT = NoParam
     THEN Stop(s, 400, <<>>, <<Ev("error", "PROJECT")>>, EmptyProject, <<>>)
     ELSE IF sources = <<>>
     THEN Stop(s1, 400, l1, <<Ev("error", "SOURCES")>>, EmptyProject, <<>>)
     ELSE IF ~SourcesAccepted(sources)
     THEN Stop(s1, 400, l1, <<Ev("error", "source")>>, EmptyProject, <<>>)
     ELSE IF ~NamesAccepted(r, sources)
     THEN Stop(s1, 400, l1, <<Ev("error", "NAMES")>>, EmptyProject, <<>>)
     ELSE Compose(s1, l1, r, overwrite, remove_qml, sources, writeOk, hasIter)

\* ------------------------------------------------------------- requests
SeqsUpTo(S, n) == UNION {[1..k -> S] : k \in 1..n}

Request(service, project, overwrite, removeqml, sources, files, names) ==
  [SERVICE |-> service, PROJECT |-> project, OVERWRITE |-> overwrite,
   REMOVEQML |-> removeqml, SOURCES |-> sources, FILES |-> files,
   NAMES |-> names]

\* Requests whose sources all load, in both modes, with the names taken
\* from the file names or all given as "a".
LoadingRequests ==
  UNION {{Request("MAPCOMPOSITION", ProjectPath, o, NoParam, src, <<>>, n) :
            o \in {NoParam, "true"},
            n \in {<<>>, [k \in DOMAIN src |-> "a"]}} :
           src \in SeqsUpTo(GoodSources, MaxPairs)}

\* Requests that ask for the .qml files to be removed.
RemoveQmlRequests ==
  {Request("MAPCOMPOSITION", ProjectPath, o, "yes", src, <<>>, <<>>) :
     o \in {NoParam, "true"},
     src \in {<<VectorA>>, <<VectorB, RasterA>>, <<VectorA, RasterA>>}}

\* Requests with a source that is rejected, alone or after one that loads.
RejectedSourceRequests ==
  {Request("MAPCOMPOSITION", ProjectPath, o, "yes", src, <<>>, <<>>) :
     o \in {NoParam, "true"},
     src \in {<<b>> : b \in Sources \ GoodSources}
             \cup {<<VectorA, b>> : b \in Sources \ GoodSources}}

\* The other forms of the parameters: another service, no PROJECT, no
\* SOURCES and no FILES, the legacy FILES, falsy and other truthy flags,
\* NAMES of another length than SOURCES.
OtherRequests ==
  {Request("WMS", ProjectPath, "true", "yes", <<VectorA>>, <<>>, <<>>),
   Request("mapcomposition", NoParam, "true", "yes", <<VectorA>>, <<>>, <<>>),
   Request("MAPCOMPOSITION", ProjectPath, "true", "yes", <<>>, <<>>, <<>>),
   Request("MAPCOMPOSITION", ProjectPath, NoParam, "1", <<>>, <<VectorB>>, <<>>),
   Request("mapcomposition", ProjectPath, "no", "no", <<RasterA>>, <<>>, <<"b">>),
   Request("MAPCOMPOSITION", ProjectPath, "YES", "TRUE", <<VectorA>>, <<VectorB>>, <<>>),
   Request("MAPCOMPOSITION", ProjectPath, "1", "0", <<RasterA>>, <<>>, <<>>),
   Request("MAPCOMPOSITION", ProjectPath, "true", "yes", <<VectorA>>, <<>>, <<"a", "b">>),
   Request("MAPCOMPOSITION", ProjectPath, NoParam, "yes", <<VectorA, VectorB>>, <<>>, <<"a">>)}

Requests ==
  LoadingRequests \cup RemoveQmlRequests \cup RejectedSourceRequests
    \cup OtherRequests


\* ---------------------------------------------------------- specification
\* A project file as the handler leaves it from scratch: the vector layers
\* in WFSLayers and WFSLayersPrecision, the raster layers in WCSLayers.
ProjectOf(layers) ==
  [layers |-> layers,
   wfs |-> Ascending({l.id : l \in {x \in layers : LayerKind(x.src) = "vector"}}),
   wcs |-> Ascending({l.id : l \in {x \in layers : LayerKind(x.src) = "raster"}}),
   prec |-> {l.id : l \in {x \in layers : LayerKind(x.src) = "vector"}}]

\* The layers a project file may hold at the start.
InitNameSources ==
  {<<"a", VectorA>>, <<"a", VectorB>>, <<"a", RasterA>>, <<"b", VectorB>>}

\* The layer sets a project file may hold at the start: ids 1..InitIds.
InitLayerSets ==
  UNION {{{Layer(i, f[i][1], f[i][2]) : i \in D} : f \in [D -> InitNameSources]} :
           D \in SUBSET (1..InitIds)}

QmlPaths == {QmlOf(s) : s \in GoodSources}

NoRequest == Request(NoParam, NoParam, NoParam, NoParam, <<>>, <<>>, <<>>)

Init ==
  /\ diskExists \in BOOLEAN
  /\ disk \in IF diskExists THEN {ProjectOf(ls) : ls \in InitLayerSets}
              ELSE {EmptyProject}
  /\ inst = EmptyProject
  /\ qmls = QmlPaths
  /\ nextId = InitIds + 1
  /\ served = 0
  /\ itervalues \in BOOLEAN
  /\ req = NoRequest
  /\ status = 0
  /\ log = <<>>
  /\ pre = [diskExists |-> diskExists, disk |-> disk, inst |-> inst, qmls |-> qmls]
  /\ base = EmptyProject
  /\ created = <<>>
  /\ written = EmptyProject

\* One MAPCOMPOSITION request, handled to its end. writeOk: whether
\* project.write() succeeds. Whether line 246 can call itervalues() on the
\* host's layer map is fixed for the process.
ExecuteRequest(r, writeOk) ==
  /\ served < MaxRequests
  /\ served' = served + 1
  /\ UNCHANGED itervalues
  /\ LET s == [diskExists |-> diskExists, disk |-> disk, inst |-> inst,
               qmls |-> qmls, nextId |-> nextId]
     IN \E out \in {executeRequest(s, r, writeOk, itervalues)} :
          /\ req' = r
          /\ pre' = [diskExists |-> diskExists, disk |-> disk, inst |-> inst,
                     qmls |-> qmls]
          /\ diskExists' = out.diskExists
          /\ disk' = out.disk
          /\ inst' = out.inst
          /\ qmls' = out.qmls
          /\ nextId' = out.nextId
          /\ status' = out.status
          /\ log' = out.log
          /\ base' = out.base
          /\ created' = out.created
          /\ written' = out.written

Next == \E r \in Requests, writeOk \in BOOLEAN : ExecuteRequest(r, writeOk)

Spec == Init /\ [][Next]_vars

\* ----------------------------------------------------- the last request
Handled == served > 0
Overwrite == Truthy(req.OVERWRITE)
RemoveQml == Truthy(req.REMOVEQML)
ReqSources == SourcesParameter(req)
ReqNames == LayerNames(req, ReqSources)
Wrote == HasEvent(log, "write")
IdsOf(layers) == {l.id : l \in layers}
NamedLike(layers, n) == {l \in layers : l.name = n}

\* ---------------------------------------------------------------- claims

\* C1: after a request that ends with 200 'OK', the written project holds,
\* for every (name, source) pair of the request, a layer with that name and
\* that source.
C1_EveryPairWritten ==
  (Handled /\ status = 200) =>
    \A k \in DOMAIN ReqSources :
      \E l \in written.layers : l.name = ReqNames[k] /\ l.src = ReqSources[k]

\* C2: when a successful non-overwrite request writes the project, every id
\* in WFSLayers, in WCSLayers and under WFSLayersPrecision is the id of a
\* layer of the project.
C2_ListsNameProjectLayers ==
  (Handled /\ status = 200 /\ ~Overwrite) =>
    /\ Range(written.wfs) \subseteq IdsOf(written.layers)
    /\ Range(written.wcs) \subseteq IdsOf(written.layers)
    /\ written.prec \subseteq IdsOf(written.layers)

\* C3: after a successful overwrite request the layers of the written
\* project are exactly the layers built from the request's pairs.
C3_OverwriteFromScratch ==
  (Handled /\ status = 200 /\ Overwrite) =>
    /\ written.layers = Range(created)
    /\ \A k \in DOMAIN ReqSources :
         created[k].name = ReqNames[k] /\ created[k].src = ReqSources[k]

\* The parameters C4 names as invalid.
C4_InvalidParameters ==
  \/ req.PROJECT = NoParam
  \/ req.SOURCES = <<>> /\ req.FILES = <<>>
  \/ \E k \in DOMAIN ReqSources : ~validate_source_uri(ReqSources[k])
  \/ \E k \in DOMAIN ReqSources :
       is_file_path(ReqSources[k]) /\ ~SourceFileExists(ReqSources[k])
  \/ req.NAMES # <<>> /\ Len(req.NAMES) # Len(ReqSources)
  \/ \E k \in DOMAIN ReqSources : LayerKind(ReqSources[k]) \in {"none", "invalid"}

\* C4: a MAPCOMPOSITION request with PROJECT missing, with SOURCES and FILES
\* both missing, with a source that fails validate_source_uri, with a file
\* source that does not exist, with NAMES of another length than the sources,
\* or with a source that yields no layer or an invalid layer, ends with
\* status 400 and an error message, and project.write() is not called.
C4_InvalidRequestRejected ==
  (Handled /\ Upper(req.SERVICE) = "MAPCOMPOSITION" /\ C4_InvalidParameters) =>
    /\ status = 400
    /\ HasEvent(log, "error")
    /\ ~HasEvent(log, "ok")
    /\ ~Wrote

\* C4 witness: a request rejected in the layer loop, after the project file
\* was read and one layer was built.
C4_Witness ==
  /\ Handled /\ status = 400
  /\ HasEvent(log, "read")
  /\ Len(created) = 1
  /\ LayerKind(ReqSources[2]) = "invalid"

\* C5: a .qml file is removed only in a request with REMOVEQML in
\* {1, YES, TRUE}, only if it is the companion of one of the request's
\* sources, and only after project.write() with the project file on disk; a
\* request that ends with 400, or without a truthy REMOVEQML, removes none.
C5_QmlRemovedLast ==
  Handled =>
    /\ \A k \in DOMAIN log :
         log[k].ev = "remove_qml" =>
           /\ RemoveQml
           /\ \E j \in DOMAIN ReqSources : log[k].arg = QmlOf(ReqSources[j])
           /\ \E j \in 1..(k - 1) : log[j].ev = "write"
           /\ diskExists
           /\ log[k].arg \in pre.qmls
    /\ pre.qmls \ qmls = {log[k].arg : k \in {j \in DOMAIN log : log[j].ev = "remove_qml"}}
    /\ qmls \subseteq pre.qmls
    /\ (status = 400 \/ ~RemoveQml) => qmls = pre.qmls

\* C5 witness: a request that removed a .qml file and answered 200.
C5_Witness ==
  /\ Handled /\ status = 200 /\ RemoveQml
  /\ HasEvent(log, "remove_qml")
  /\ qmls # pre.qmls

\* C6: in a non-overwrite request, for an incoming layer whose name matches
\* an existing project layer with an equal source, the existing layer stays
\* with its id, the incoming layer object is not added, and the written
\* WFSLayers (vector) or WCSLayers (raster) holds the existing layer's id and
\* not the incoming layer's id.
C6_SameSourceKept ==
  (Handled /\ status = 200 /\ ~Overwrite) =>
    \A k \in DOMAIN created : \A e \in base.layers :
      (e.name = created[k].name /\ e.src = created[k].src) =>
        /\ e \in written.layers
        /\ created[k] \notin written.layers
        /\ LayerKind(e.src) = "vector" =>
             e.id \in Range(written.wfs) /\ created[k].id \notin Range(written.wfs)
        /\ LayerKind(e.src) = "raster" =>
             e.id \in Range(written.wcs) /\ created[k].id \notin Range(written.wcs)

\* C7: in a non-overwrite request, for an incoming layer whose name matches
\* an existing project layer with a different source, afterwards the project
\* holds no layer with that name and the old source, holds the incoming
\* layer, and holds as many layers with that name as before.
C7_DifferentSourceReplaced ==
  (Handled /\ status = 200 /\ ~Overwrite) =>
    \A k \in DOMAIN created : \A e \in base.layers :
      (e.name = created[k].name /\ e.src # created[k].src) =>
        /\ ~\E l \in written.layers : l.name = e.name /\ l.src = e.src
        /\ created[k] \in written.layers
        /\ Cardinality(NamedLike(written.layers, e.name))
             = Cardinality(NamedLike(base.layers, e.name))

\* C8: a request that ends with status 400 leaves the project file as it
\* was: it exists afterwards exactly if it existed before, with the same
\* content.
C8_RejectedLeavesDisk ==
  (Handled /\ status = 400) =>
    /\ diskExists = pre.diskExists
    /\ disk = pre.disk

\* C9: a non-overwrite request leaves every existing project layer whose
\* name is not among the request's names in the written project, with the
\* same id, name and source; the existing layers are those of the project
\* file when there is one.
C9_OtherNamesUntouched ==
  (Handled /\ Wrote /\ ~Overwrite) =>
    /\ pre.diskExists => base = pre.disk
    /\ \A e \in base.layers :
         e.name \notin Range(ReqNames) => e \in written.layers

\* C9 witness: a successful non-overwrite request that replaced a layer of
\* the project file and left one with another name in place.
C9_Witness ==
  /\ Handled /\ status = 200 /\ ~Overwrite /\ pre.diskExists
  /\ \E e \in pre.disk.layers :
       e.name \notin Range(ReqNames) /\ e \in written.layers /\ e \in disk.layers
  /\ \E e \in pre.disk.layers : e \notin written.layers
  /\ Len(created) = MaxPairs

====
